---- MODULE Spec2Model ----
(***************************************************************************)
(* Wallet transaction ledger: the two write paths of the repository.       *)
(*                                                                         *)
(*   TS path: TransactionService.processTransaction over                   *)
(*            PostgresRepository (database wallet_db, Express server).     *)
(*   CT path: CreateTransactionService.execute over                        *)
(*            PgTransactionWriteRepositoryAdapter /                        *)
(*            PgTransactionReadRepositoryAdapter (Lambda handlers).        *)
(*                                                                         *)
(* Every call is one asynchronous invocation; its awaits are the points    *)
(* where other calls may run.  The store is PostgreSQL at its default      *)
(* isolation level (READ COMMITTED): a statement sees the rows committed   *)
(* when it starts, the writes of a unit are invisible to others until      *)
(* COMMIT, and an UPDATE of a row waits for the unit that holds the row's  *)
(* lock.                                                                   *)
(***************************************************************************)
EXTENDS Integers, Sequences, FiniteSets, TLC

\* Number of calls started in one behaviour.
MaxCalls == 2

\* Concurrent callers: each runs one call at a time and then the next.
Workers == {1, 2}

\* Amounts of the valid commands, and the balances a users row may start with.
Amounts == {1, 2}
InitBalances == {0, 1}

\* "u1" has a users row in both databases, "u2" has none.
ExistingUser == "u1"
AbsentUser == "u2"
OtherUser == "u3"

\* The caller-supplied idempotency key; "" stands for an omitted field.
CallerId == "k1"
Omitted == ""

VARIABLES
    walletUsers,         \* users(user_id, balance) of wallet_db: user_id -> balance
    walletTransactions,  \* committed rows of transactions in wallet_db
    lambdaUsers,         \* users(id, balance) behind DATABASE_URL: id -> balance
    lambdaTransactions,  \* committed rows of transactions behind DATABASE_URL
    mockEvents,          \* events handed to EventPublisherMock.publish, in order
    eventsMemory,        \* EventPublisherSimulator._eventsMemory
    call,                \* per worker: its current (or last) call
    started,             \* number of calls started so far
    initBalance,         \* the balance the users row of "u1" started with
    deployment,          \* "express": localServer.js wires TransactionService;
                         \* "lambda": the Lambda handlers wire CreateTransactionService
    publishCalls,        \* the events of the calls of EventPublisherSimulator.publish
                         \* that have returned, in call order
    returnedArray,       \* the array a caller got from getPublishedEvents
    user,                \* a User aggregate: id, name, balance
    userLog              \* what was done with it: the balance it was constructed
                         \* with, the sums of the deposits and withdrawals that
                         \* returned, the balance before the last call and its error

vars == <<walletUsers, walletTransactions, lambdaUsers, lambdaTransactions,
          mockEvents, eventsMemory, call, started, initBalance, deployment,
          publishCalls, returnedArray, user, userLog>>

\* What no call changes.
config == <<initBalance, deployment>>

walletVars == <<walletUsers, walletTransactions>>
lambdaVars == <<lambdaUsers, lambdaTransactions>>
tables == <<walletUsers, walletTransactions, lambdaUsers, lambdaTransactions>>
eventVars == <<mockEvents, eventsMemory, publishCalls>>

\* The objects no call of a service touches.
objectVars == <<returnedArray, user, userLog>>

-----------------------------------------------------------------------------
(* Errors, by the message the code throws.                                 *)

ErrUserId == "Invalid or missing userId"
ErrAmount == "Amount must be a positive number"
ErrType == "Type must be either 'deposit' or 'withdraw'"
ErrInsufficient == "Insufficient balance"
ErrUserNotFound == "User not found"
ErrInvalidType == "Invalid transaction type"
ErrUserIdRequired == "user_id required"
ErrAmountPositive == "amount must be positive"
ErrInvalidTypeCT == "invalid type"
\* Failures that come from outside the code: a failed statement, a violated key,
\* a throwing publish.
ErrStore == "store failure"
ErrDuplicateKey == "duplicate key"
ErrPublish == "publish failed"
ErrUserIdIsRequired == "UserId is required"
ErrConnect == "connect failed"
ErrRollback == "rollback failed"
NoError == "none"

-----------------------------------------------------------------------------
(* Commands.  One record shape serves both paths: userId is user_id and id *)
(* is transaction_id on the CT path.                                       *)

\* A command without a timestamp field: 0 stands for any falsy timestamp.
NoTimestamp == 0

Command(u, a, t, k) ==
    [userId |-> u, amount |-> a, type |-> t, id |-> k, timestamp |-> NoTimestamp]

\* The same command with the timestamp the caller supplies.
WithTimestamp(cmd, ts) == [cmd EXCEPT !.timestamp = ts]

NoCommand == Command(Omitted, 0, Omitted, Omitted)

Types == {"deposit", "withdraw"}

ValidCommands ==
    {Command(ExistingUser, a, t, Omitted) : a \in Amounts, t \in Types}
      \cup {Command(ExistingUser, 1, "deposit", CallerId),
            Command(AbsentUser, 1, "deposit", Omitted),
            Command(AbsentUser, 1, "withdraw", Omitted)}

InvalidCommands ==
    {Command(Omitted, 1, "deposit", Omitted),
     Command(ExistingUser, 0, "deposit", Omitted),
     Command(ExistingUser, 1, "transfer", Omitted),
     Command(Omitted, 0, "transfer", Omitted)}

Commands == ValidCommands \cup InvalidCommands

-----------------------------------------------------------------------------
(* Amounts as JavaScript and SQL see them.  An amount is an integer, or    *)
(* one of two values that are not one: NaN, and a string that is not a     *)
(* numeral.  Both are coded by integers no sum of the model reaches.       *)

NaN == 0 - 1000
AmountText == 0 - 1001

\* typeof amount === "number": NaN is a number, a string is not.
TypeofIsNumber(a) == a # AmountText

\* !amount: 0 and NaN are falsy, a non-empty string is not.
Falsy(a) == a = 0 \/ a = NaN

\* a <= b and a > b: false as soon as an operand is NaN.
LessOrEqual(a, b) == a # NaN /\ b # NaN /\ a <= b
GreaterThan(a, b) == a # NaN /\ b # NaN /\ a > b

\* a + b and a - b: NaN as soon as an operand is NaN.
Plus(a, b) == IF a = NaN \/ b = NaN THEN NaN ELSE a + b
Minus(a, b) == IF a = NaN \/ b = NaN THEN NaN ELSE a - b

-----------------------------------------------------------------------------
(* Rows and sums.                                                          *)

\* The signed amount of a row: the CASE of getUserBalance's SUM.
SignedAmount(r) ==
    IF r.type = "deposit" THEN r.amount
    ELSE IF r.type = "withdraw" THEN Minus(0, r.amount)
    ELSE 0

\* SUM over rows: NaN as soon as one signed amount is NaN.
RECURSIVE SumNumbers(_)
SumNumbers(rows) ==
    IF rows = {} THEN 0
    ELSE LET r == CHOOSE x \in rows : TRUE
         IN  SignedAmount(r) + SumNumbers(rows \ {r})

SumRows(rows) ==
    IF \E r \in rows : SignedAmount(r) = NaN THEN NaN ELSE SumNumbers(rows)

\* The row INSERT ... RETURNING * yields: the id is the store's, the caller's id is
\* not among the inserted columns.
WalletRow(c) ==
    [id |-> c.n, user_id |-> c.cmd.userId, amount |-> c.cmd.amount, type |-> c.cmd.type]

\* Number(command.amount): the number itself, NaN for a string that is no numeral.
Number(a) == IF a = AmountText THEN NaN ELSE a

\* uuidv4(): an identifier no other call is given.
uuidv4(n) == "uuid-" \o ToString(n)

\* new Date().toISOString() during call n: the clock only moves forward.
now(n) == n + 2

\* A timestamp older than every reading of the clock.
OldTimestamp == 1

\* Mutant: the caller's transaction_id is ignored and one is always generated.
TxOfFreshId(cmd, n) ==
    [transaction_id |-> uuidv4(n),
     user_id |-> cmd.userId,
     amount |-> Number(cmd.amount),
     type |-> cmd.type,
     timestamp |-> IF cmd.timestamp # NoTimestamp THEN cmd.timestamp ELSE now(n)]

\* The transaction object execute builds: the caller's transaction_id when given,
\* a generated one otherwise; the caller's timestamp when given, the clock otherwise.
TxOf(cmd, n) ==
    [transaction_id |-> IF cmd.id # Omitted THEN cmd.id ELSE uuidv4(n),
     user_id |-> cmd.userId,
     amount |-> Number(cmd.amount),
     type |-> cmd.type,
     timestamp |-> IF cmd.timestamp # NoTimestamp THEN cmd.timestamp ELSE now(n)]

LambdaRow(c) == TxOf(c.cmd, c.n)

RowsOf(table, userId) == {r \in table : r.user_id = userId}

\* Mutant: the balance is read from the users row, and is zero without one.
getUserBalanceOfUsersRow(userId) ==
    IF userId \in DOMAIN walletUsers THEN walletUsers[userId] ELSE 0

\* PostgresRepository.getUserBalance: COALESCE(SUM(CASE ...), 0) over the user's rows.
getUserBalance(userId) == SumRows(RowsOf(walletTransactions, userId))

\* PostgresRepository.getUserTransactions: the user's committed rows.
getUserTransactions(userId) == RowsOf(walletTransactions, userId)

-----------------------------------------------------------------------------
(* Positions of a call.                                                    *)

InUnit == {"select", "insert", "update", "commit"}
InQuery == {"transactions", "balance"}
InFlight == {"advisory", "publish"} \cup InUnit \cup InQuery
Completed == {"done", "failed"}

\* n: the call's number; bal, ver: the balance SELECT read and the number of the
\* user's committed rows at that moment; acquired, released: how many times the
\* call's saveTransaction has taken a client from the pool (pool.connect()) and how
\* many times it has given one back (client.release()); queries: how many read
\* queries it has sent with pool.query; resp: what a read answers.
NoResponse == [statusCode |-> 0, hasBalance |-> FALSE, balance |-> 0, transactions |-> <<>>]

IdleCall ==
    [path |-> "none", pc |-> "idle", cmd |-> NoCommand, n |-> 0,
     bal |-> 0, ver |-> 0, err |-> NoError, acquired |-> 0, released |-> 0,
     queries |-> 0, resp |-> NoResponse]

\* A call ends: a failed call keeps none of what it read.
Completes(w, outcome, err) ==
    call' = [call EXCEPT ![w].pc = outcome, ![w].err = err,
                         ![w].bal = IF outcome = "failed" THEN 0 ELSE @,
                         ![w].ver = IF outcome = "failed" THEN 0 ELSE @]

Moves(w, pc) == call' = [call EXCEPT ![w].pc = pc]

\* A call is taken by the first caller that is free to make its next call.
Enters(w) ==
    /\ call[w].pc \notin InFlight
    /\ \A d \in Workers : d < w => call[d].pc \in InFlight
    /\ started' = started + 1

\* Mutant: the UPDATE locks the users table, not the user's row.
RowLockedTable(w, path, users) ==
    \E d \in Workers \ {w} :
        /\ call[d].path = path
        /\ call[d].pc = "commit"
        /\ call[d].cmd.userId \in DOMAIN users

\* The unit of another call holds the lock of the user's row: it has run its UPDATE
\* and has neither committed nor rolled back.
RowLocked(w, path, users) ==
    \E d \in Workers \ {w} :
        /\ call[d].path = path
        /\ call[d].pc = "commit"
        /\ call[d].cmd.userId = call[w].cmd.userId
        /\ call[d].cmd.userId \in DOMAIN users

-----------------------------------------------------------------------------
(* TS path: TransactionService.processTransaction.                         *)

\* The three validations, in order; the first violated rule is the error.
ValidateTS(cmd) ==
    IF cmd.userId = Omitted THEN ErrUserId
    ELSE IF ~TypeofIsNumber(cmd.amount) \/ LessOrEqual(cmd.amount, 0) THEN ErrAmount
    ELSE IF cmd.type \notin Types THEN ErrType
    ELSE NoError

\* Entry and validation, up to the first await.
processTransaction(w, cmd) ==
    /\ deployment = "express"
    /\ Enters(w)
    /\ LET err == ValidateTS(cmd)
       IN  call' = [call EXCEPT ![w] =
                [path |-> "TS",
                 pc |-> IF err # NoError THEN "failed"
                        ELSE IF cmd.type = "withdraw" THEN "advisory"
                        ELSE "select",
                 cmd |-> cmd, n |-> started + 1, bal |-> 0, ver |-> 0, err |-> err,
                 acquired |-> 0, released |-> 0, queries |-> 0, resp |-> NoResponse]]
    /\ UNCHANGED <<tables, eventVars, config, objectVars>>

\* Mutant: the advisory check lets a withdraw pass that is one above the balance.
AdvisoryRejectsWithSlack(amount, currentBalance) ==
    GreaterThan(amount, currentBalance + 1)

\* Mutant: the advisory check is left out.
AdvisoryNeverRejects(amount, currentBalance) == FALSE

\* The advisory check of a withdraw against getUserBalance.
AdvisoryRejects(amount, currentBalance) == GreaterThan(amount, currentBalance)

advisoryCheck(w) ==
    /\ call[w].path = "TS"
    /\ call[w].pc = "advisory"
    /\ IF AdvisoryRejects(call[w].cmd.amount, getUserBalance(call[w].cmd.userId))
       THEN call' = [call EXCEPT ![w].pc = "failed", ![w].err = ErrInsufficient,
                                 ![w].queries = 1]
       ELSE call' = [call EXCEPT ![w].pc = "select", ![w].queries = 1]
    /\ UNCHANGED <<tables, eventVars, started, config, objectVars>>

-----------------------------------------------------------------------------
(* TS path: PostgresRepository.saveTransaction.                            *)

\* Mutant: the catch block rethrows without ROLLBACK and the client goes back to the
\* pool with its unit open, so the row it has inserted is committed by the next unit
\* on that client.
RollbackMissing(w, err) ==
    /\ Completes(w, "failed", err)
    /\ walletTransactions' =
          IF call[w].path = "TS" /\ call[w].pc \in {"update", "commit"}
          THEN walletTransactions \cup {WalletRow(call[w])}
          ELSE walletTransactions
    /\ lambdaTransactions' =
          IF call[w].path = "CT" /\ call[w].pc \in {"update", "commit"}
          THEN lambdaTransactions \cup {LambdaRow(call[w])}
          ELSE lambdaTransactions
    /\ UNCHANGED <<walletUsers, lambdaUsers>>

\* A statement after pool.connect() throws; ROLLBACK in the catch block drops the
\* unit's writes, the error is rethrown to the caller, and the finally block
\* releases the client.
Rollback(w, err) ==
    /\ call' = [call EXCEPT ![w].pc = "failed", ![w].err = err,
                            ![w].bal = 0, ![w].ver = 0,
                            ![w].acquired = 1, ![w].released = 1]
    /\ UNCHANGED tables

\* Mutant: the funds check also rejects a withdraw of the whole balance.
FundsCheckRejectsAtBalance(amount, balance) ==
    GreaterThan(amount, balance) \/ amount = balance

\* The funds check of saveTransaction against the balance it read.
FundsCheckRejects(amount, balance) == GreaterThan(amount, balance)

\* The balance saveTransaction writes back, from the balance it read.
NewBalance(balance, amount, type) ==
    IF type = "deposit" THEN Plus(balance, amount) ELSE Minus(balance, amount)

\* Mutant: a user without a users row is taken to have balance zero.
saveTransactionSelectImplicitUser(w) ==
    /\ call[w].path = "TS"
    /\ call[w].pc = "select"
    /\ LET cmd == call[w].cmd
           balance == IF cmd.userId \in DOMAIN walletUsers
                      THEN walletUsers[cmd.userId] ELSE 0
       IN  IF cmd.type = "withdraw" /\ FundsCheckRejects(cmd.amount, balance)
           THEN Rollback(w, ErrInsufficient)
           ELSE IF cmd.type \notin Types
           THEN Rollback(w, ErrInvalidType)
           ELSE /\ call' = [call EXCEPT
                        ![w].pc = "insert",
                        ![w].acquired = 1,
                        ![w].bal = balance,
                        ![w].ver = Cardinality(RowsOf(walletTransactions, cmd.userId))]
                /\ UNCHANGED tables
    /\ UNCHANGED <<eventVars, started, config, objectVars>>

\* pool.connect(); BEGIN; SELECT balance FROM users; the checks on what was read.
saveTransactionSelect(w) ==
    /\ call[w].path = "TS"
    /\ call[w].pc = "select"
    /\ LET cmd == call[w].cmd
       IN  IF cmd.userId \notin DOMAIN walletUsers
           THEN Rollback(w, ErrUserNotFound)
           ELSE IF cmd.type = "withdraw"
                    /\ FundsCheckRejects(cmd.amount, walletUsers[cmd.userId])
           THEN Rollback(w, ErrInsufficient)
           ELSE IF cmd.type \notin Types
           THEN Rollback(w, ErrInvalidType)
           ELSE /\ call' = [call EXCEPT
                        ![w].pc = "insert",
                        ![w].acquired = 1,
                        ![w].bal = walletUsers[cmd.userId],
                        ![w].ver = Cardinality(RowsOf(walletTransactions, cmd.userId))]
                /\ UNCHANGED tables
    /\ UNCHANGED <<eventVars, started, config, objectVars>>

\* INSERT INTO transactions: the row is the unit's own until COMMIT.
saveTransactionInsert(w) ==
    /\ call[w].path = "TS"
    /\ call[w].pc = "insert"
    /\ Moves(w, "update")
    /\ UNCHANGED <<tables, eventVars, started, config, objectVars>>

\* UPDATE users SET balance = $1: waits for the row's lock, then holds it.
saveTransactionUpdate(w) ==
    /\ call[w].path = "TS"
    /\ call[w].pc = "update"
    /\ ~RowLocked(w, "TS", walletUsers)
    /\ Moves(w, "commit")
    /\ UNCHANGED <<tables, eventVars, started, config, objectVars>>

\* COMMIT: the inserted row and the written balance become visible together; the
\* finally block releases the client.
saveTransactionCommit(w) ==
    /\ call[w].path = "TS"
    /\ call[w].pc = "commit"
    /\ walletTransactions' = walletTransactions \cup {WalletRow(call[w])}
    /\ walletUsers' = [walletUsers EXCEPT ![call[w].cmd.userId] =
            NewBalance(call[w].bal, call[w].cmd.amount, call[w].cmd.type)]
    /\ call' = [call EXCEPT ![w].pc = "publish", ![w].released = 1]
    /\ UNCHANGED <<lambdaVars, eventVars, started, config, objectVars>>

\* A statement of the unit (BEGIN, SELECT, INSERT, UPDATE or COMMIT) fails.
saveTransactionFails(w) ==
    /\ call[w].path = "TS"
    /\ call[w].pc \in InUnit
    /\ Rollback(w, ErrStore)
    /\ UNCHANGED <<eventVars, started, config, objectVars>>

\* pool.connect() throws: saveTransaction has no client and has not entered its try.
saveTransactionConnectFails(w) ==
    /\ call[w].path = "TS"
    /\ call[w].pc = "select"
    /\ Completes(w, "failed", ErrConnect)
    /\ UNCHANGED <<tables, eventVars, started, config, objectVars>>

\* Mutant: client.release() follows the catch block instead of standing in a finally
\* block, so an error thrown by ROLLBACK skips it.
saveTransactionRollbackFailsKeepsClient(w) ==
    /\ call[w].path = "TS"
    /\ call[w].pc \in InUnit
    /\ call' = [call EXCEPT ![w].pc = "failed", ![w].err = ErrRollback,
                            ![w].bal = 0, ![w].ver = 0, ![w].acquired = 1]
    /\ UNCHANGED <<tables, eventVars, started, config, objectVars>>

\* A statement of the unit fails and the ROLLBACK of the catch block fails too (the
\* connection is gone, so the server drops the unit's writes): the error of ROLLBACK
\* leaves the catch block in place of the statement's, and the finally block
\* releases the client.
saveTransactionRollbackFails(w) ==
    /\ call[w].path = "TS"
    /\ call[w].pc \in InUnit
    /\ call' = [call EXCEPT ![w].pc = "failed", ![w].err = ErrRollback,
                            ![w].bal = 0, ![w].ver = 0,
                            ![w].acquired = 1, ![w].released = 1]
    /\ UNCHANGED <<tables, eventVars, started, config, objectVars>>

\* await eventPublisher.publish(...) returns: the saved transaction is returned.
publishProcessed(w) ==
    /\ call[w].path = "TS"
    /\ call[w].pc = "publish"
    /\ mockEvents' = Append(mockEvents,
            [type |-> "TRANSACTION_PROCESSED", payload |-> WalletRow(call[w])])
    /\ Completes(w, "done", NoError)
    /\ UNCHANGED <<tables, eventsMemory, publishCalls, started, config, objectVars>>

\* Mutant: the catch block undoes the write of a call whose publish failed.
publishProcessedThrowsCompensates(w) ==
    /\ call[w].path = "TS"
    /\ call[w].pc = "publish"
    /\ walletTransactions' = walletTransactions \ {WalletRow(call[w])}
    /\ walletUsers' = [walletUsers EXCEPT ![call[w].cmd.userId] = call[w].bal]
    /\ Completes(w, "failed", ErrPublish)
    /\ UNCHANGED <<lambdaVars, eventVars, started, config, objectVars>>

\* await eventPublisher.publish(...) throws: the catch block logs and rethrows.
publishProcessedThrows(w) ==
    /\ call[w].path = "TS"
    /\ call[w].pc = "publish"
    /\ Completes(w, "failed", ErrPublish)
    /\ UNCHANGED <<tables, eventVars, started, config, objectVars>>

-----------------------------------------------------------------------------
(* CT path: CreateTransactionService.execute.                              *)

\* The three validations, in order; "" and 0 are the falsy values.
ValidateCT(cmd) ==
    IF cmd.userId = Omitted THEN ErrUserIdRequired
    ELSE IF Falsy(cmd.amount) \/ LessOrEqual(Number(cmd.amount), 0) THEN ErrAmountPositive
    ELSE IF cmd.type \notin Types THEN ErrInvalidTypeCT
    ELSE NoError

\* Entry, validation and construction of the transaction, up to the first await.
execute(w, cmd) ==
    /\ deployment = "lambda"
    /\ Enters(w)
    /\ LET err == ValidateCT(cmd)
       IN  call' = [call EXCEPT ![w] =
                [path |-> "CT",
                 pc |-> IF err # NoError THEN "failed" ELSE "insert",
                 cmd |-> cmd, n |-> started + 1, bal |-> 0, ver |-> 0, err |-> err,
                 acquired |-> 0, released |-> 0, queries |-> 0, resp |-> NoResponse]]
    /\ UNCHANGED <<tables, eventVars, config, objectVars>>

-----------------------------------------------------------------------------
(* CT path: PgTransactionWriteRepositoryAdapter.saveTransaction.           *)

\* transactions(transaction_id PRIMARY KEY): a committed row has the key.
DuplicateKey(id) == \E r \in lambdaTransactions : r.transaction_id = id

\* Another unit has inserted the key and has neither committed nor rolled back: the
\* INSERT waits for it.
KeyPending(w, id) ==
    \E d \in Workers \ {w} :
        /\ call[d].path = "CT"
        /\ call[d].pc \in {"update", "commit"}
        /\ LambdaRow(call[d]).transaction_id = id

\* pool.connect(); BEGIN; INSERT INTO transactions(transaction_id, ...).
pgSaveTransactionInsert(w) ==
    /\ call[w].path = "CT"
    /\ call[w].pc = "insert"
    /\ ~KeyPending(w, LambdaRow(call[w]).transaction_id)
    /\ IF DuplicateKey(LambdaRow(call[w]).transaction_id)
       THEN Rollback(w, ErrDuplicateKey)
       ELSE /\ call' = [call EXCEPT ![w].pc = "update", ![w].acquired = 1]
            /\ UNCHANGED tables
    /\ UNCHANGED <<eventVars, started, config, objectVars>>

\* UPDATE users SET balance = balance +/- $1: waits for the row's lock, then holds it.
pgSaveTransactionUpdate(w) ==
    /\ call[w].path = "CT"
    /\ call[w].pc = "update"
    /\ ~RowLocked(w, "CT", lambdaUsers)
    /\ Moves(w, "commit")
    /\ UNCHANGED <<tables, eventVars, started, config, objectVars>>

\* Mutant: the UPDATE writes the amount over the balance instead of adding it.
RelativeUpdateOverwrites(balance, amount, type) ==
    IF type = "deposit" THEN amount ELSE 0 - amount

\* The balance the relative UPDATE leaves: + for a deposit, - for anything else.
RelativeUpdate(balance, amount, type) ==
    IF type = "deposit" THEN Plus(balance, amount) ELSE Minus(balance, amount)

\* COMMIT: the inserted row and the updated balance become visible together (the
\* UPDATE of a user without a users row changed no row); the finally block releases
\* the client.
pgSaveTransactionCommit(w) ==
    /\ call[w].path = "CT"
    /\ call[w].pc = "commit"
    /\ lambdaTransactions' = lambdaTransactions \cup {LambdaRow(call[w])}
    /\ lambdaUsers' =
          IF call[w].cmd.userId \in DOMAIN lambdaUsers
          THEN [lambdaUsers EXCEPT ![call[w].cmd.userId] =
                    RelativeUpdate(@, LambdaRow(call[w]).amount, call[w].cmd.type)]
          ELSE lambdaUsers
    /\ call' = [call EXCEPT ![w].pc = "publish", ![w].released = 1]
    /\ UNCHANGED <<walletVars, eventVars, started, config, objectVars>>

\* A statement of the unit (BEGIN, INSERT, UPDATE or COMMIT) fails.
pgSaveTransactionFails(w) ==
    /\ call[w].path = "CT"
    /\ call[w].pc \in InUnit
    /\ Rollback(w, ErrStore)
    /\ UNCHANGED <<eventVars, started, config, objectVars>>

\* pool.connect() throws: saveTransaction has no client and has not entered its try.
pgSaveTransactionConnectFails(w) ==
    /\ call[w].path = "CT"
    /\ call[w].pc = "insert"
    /\ Completes(w, "failed", ErrConnect)
    /\ UNCHANGED <<tables, eventVars, started, config, objectVars>>

\* A statement of the unit fails and the ROLLBACK of the catch block fails too: the
\* error of ROLLBACK leaves the catch block in place of the statement's, and the
\* finally block releases the client.
pgSaveTransactionRollbackFails(w) ==
    /\ call[w].path = "CT"
    /\ call[w].pc \in InUnit
    /\ call' = [call EXCEPT ![w].pc = "failed", ![w].err = ErrRollback,
                            ![w].bal = 0, ![w].ver = 0,
                            ![w].acquired = 1, ![w].released = 1]
    /\ UNCHANGED <<tables, eventVars, started, config, objectVars>>

\* new TransactionCreatedEvent(tx): DomainEvent's name and payload.
TransactionCreatedEvent(tx) == [name |-> "TransactionCreated", payload |-> tx]

\* EventPublisherSimulator.publish returns: the event is kept, tx is returned.
publishCreated(w) ==
    /\ call[w].path = "CT"
    /\ call[w].pc = "publish"
    /\ eventsMemory' = Append(eventsMemory, TransactionCreatedEvent(LambdaRow(call[w])))
    /\ publishCalls' = Append(publishCalls, TransactionCreatedEvent(LambdaRow(call[w])))
    /\ Completes(w, "done", NoError)
    /\ UNCHANGED <<tables, mockEvents, started, config, objectVars>>

\* Mutant: publish keeps the event before it throws.
publishCreatedThrowsAfterPush(w) ==
    /\ call[w].path = "CT"
    /\ call[w].pc = "publish"
    /\ eventsMemory' = Append(eventsMemory, TransactionCreatedEvent(LambdaRow(call[w])))
    /\ UNCHANGED publishCalls
    /\ Completes(w, "failed", ErrPublish)
    /\ UNCHANGED <<tables, mockEvents, started, config, objectVars>>

\* eventPublisher.publish throws: nothing catches it and execute rejects.
publishCreatedThrows(w) ==
    /\ call[w].path = "CT"
    /\ call[w].pc = "publish"
    /\ Completes(w, "failed", ErrPublish)
    /\ UNCHANGED <<tables, eventVars, started, config, objectVars>>

-----------------------------------------------------------------------------

(* CT path: PgTransactionReadRepositoryAdapter.                            *)

\* The default of getTransactionsByUser's limit parameter.
DefaultLimit == 100

\* Mutant: ORDER BY timestamp ASC.
RECURSIVE Earliest(_, _)
Earliest(rows, k) ==
    IF k <= 0 \/ rows = {} THEN <<>>
    ELSE LET r == CHOOSE x \in rows : \A y \in rows : x.timestamp <= y.timestamp
         IN  <<r>> \o Earliest(rows \ {r}, k - 1)

\* The first k of the rows by ORDER BY timestamp DESC (k is not negative: LIMIT
\* refuses a negative count).
RECURSIVE Latest(_, _)
Latest(rows, k) ==
    IF k <= 0 \/ rows = {} THEN <<>>
    ELSE LET r == CHOOSE x \in rows : \A y \in rows : y.timestamp <= x.timestamp
         IN  <<r>> \o Latest(rows \ {r}, k - 1)

\* SELECT ... WHERE user_id = $1 ORDER BY timestamp DESC LIMIT $2.
getTransactionsByUser(userId, limit) == Latest(RowsOf(lambdaTransactions, userId), limit)

\* SELECT balance FROM users WHERE id = $1: the balance, or null without a row.
Null == "null"
getBalanceByUser(userId) ==
    IF userId \in DOMAIN lambdaUsers THEN Number(lambdaUsers[userId]) ELSE Null

\* The signed sum of a list of rows.
SumList(list) == SumRows({list[i] : i \in 1 .. Len(list)})

-----------------------------------------------------------------------------
(* Reads.  A read is a call of its own: TransactionService.getUserTransactions *)
(* and getUserBalance on the TS path, the query Lambda handler on the CT path. *)

ReadOperations == {"getUserTransactions", "getUserBalance"}

\* TransactionService.getUserTransactions / getUserBalance, up to the await: a
\* missing userId throws before the repository is called.
serviceRead(w, operation, userId) ==
    /\ deployment = "express"
    /\ Enters(w)
    /\ call' = [call EXCEPT ![w] =
            [path |-> "TSread",
             pc |-> IF userId = Omitted THEN "failed"
                    ELSE IF operation = "getUserTransactions" THEN "transactions"
                    ELSE "balance",
             cmd |-> Command(userId, 0, operation, Omitted), n |-> started + 1,
             bal |-> 0, ver |-> 0,
             err |-> IF userId = Omitted THEN ErrUserIdIsRequired ELSE NoError,
             acquired |-> 0, released |-> 0, queries |-> 0, resp |-> NoResponse]]
    /\ UNCHANGED <<tables, eventVars, config, objectVars>>

\* PostgresRepository.getUserTransactions answers: SELECT * ... ORDER BY timestamp
\* DESC.  The rows answered are the user's committed rows; the list is not kept.
repositoryGetUserTransactions(w) ==
    /\ call[w].path = "TSread"
    /\ call[w].pc = "transactions"
    /\ call' = [call EXCEPT ![w].pc = "done", ![w].queries = @ + 1,
                            ![w].resp.statusCode = 200]
    /\ UNCHANGED <<tables, eventVars, started, config, objectVars>>

\* PostgresRepository.getUserBalance answers.
repositoryGetUserBalance(w) ==
    /\ call[w].path = "TSread"
    /\ call[w].pc = "balance"
    /\ call' = [call EXCEPT ![w].pc = "done", ![w].queries = @ + 1,
                            ![w].resp.statusCode = 200,
                            ![w].resp.hasBalance = TRUE,
                            ![w].resp.balance = getUserBalance(call[w].cmd.userId)]
    /\ UNCHANGED <<tables, eventVars, started, config, objectVars>>

\* Mutant: the handler does not test user_id.
queryHandlerUnchecked(w, userId) ==
    /\ deployment = "lambda"
    /\ Enters(w)
    /\ call' = [call EXCEPT ![w] =
            [path |-> "query", pc |-> "transactions",
             cmd |-> Command(userId, 0, "query", Omitted), n |-> started + 1,
             bal |-> 0, ver |-> 0, err |-> NoError,
             acquired |-> 0, released |-> 0, queries |-> 0, resp |-> NoResponse]]
    /\ UNCHANGED <<tables, eventVars, config, objectVars>>

\* The query Lambda handler, up to the first await: without user_id it returns 400.
queryHandler(w, userId) ==
    /\ deployment = "lambda"
    /\ Enters(w)
    /\ call' = [call EXCEPT ![w] =
            [path |-> "query",
             pc |-> IF userId = Omitted THEN "done" ELSE "transactions",
             cmd |-> Command(userId, 0, "query", Omitted), n |-> started + 1,
             bal |-> 0, ver |-> 0,
             err |-> IF userId = Omitted THEN ErrUserIdRequired ELSE NoError,
             acquired |-> 0, released |-> 0, queries |-> 0,
             resp |-> IF userId = Omitted
                      THEN [NoResponse EXCEPT !.statusCode = 400]
                      ELSE NoResponse]]
    /\ UNCHANGED <<tables, eventVars, config, objectVars>>

\* await readRepo.getTransactionsByUser(userId) answers (limit: the default).
handlerGetTransactionsByUser(w) ==
    /\ call[w].path = "query"
    /\ call[w].pc = "transactions"
    /\ call' = [call EXCEPT
            ![w].pc = "balance",
            ![w].queries = @ + 1,
            ![w].resp.transactions = getTransactionsByUser(call[w].cmd.userId, DefaultLimit)]
    /\ UNCHANGED <<tables, eventVars, started, config, objectVars>>

\* await readRepo.getBalanceByUser(userId) answers; the handler returns 200 with
\* the balance (null without a users row) and the transactions read before.
handlerGetBalanceByUser(w) ==
    /\ call[w].path = "query"
    /\ call[w].pc = "balance"
    /\ LET userId == call[w].cmd.userId
       IN  call' = [call EXCEPT
               ![w].pc = "done",
               ![w].queries = @ + 1,
               ![w].resp.statusCode = 200,
               ![w].resp.hasBalance = userId \in DOMAIN lambdaUsers,
               ![w].resp.balance = IF userId \in DOMAIN lambdaUsers
                                   THEN getBalanceByUser(userId) ELSE 0]
    /\ UNCHANGED <<tables, eventVars, started, config, objectVars>>

-----------------------------------------------------------------------------
(* EventPublisherSimulator, called directly.  An array is a reference: the  *)
(* caller of getPublishedEvents holds no array, a copy of its own, or the   *)
(* array _eventsMemory itself.                                              *)

NoArray == [ref |-> "none", items |-> <<>>, fresh |-> FALSE]

\* What the array the caller holds contains.
ArrayContents ==
    IF returnedArray.ref = "memory" THEN eventsMemory ELSE returnedArray.items

\* publish(event): logger.info, then _eventsMemory.push(event).
publish(event) ==
    /\ eventsMemory' = Append(eventsMemory, event)
    /\ publishCalls' = Append(publishCalls, event)
    /\ started' = started + 1
    /\ UNCHANGED <<tables, mockEvents, call, config, objectVars>>

\* Mutant: getPublishedEvents returns this._eventsMemory itself.
getPublishedEventsByReference ==
    /\ returnedArray' = [ref |-> "memory", items |-> <<>>, fresh |-> TRUE]
    /\ UNCHANGED <<tables, eventVars, call, started, config, user, userLog>>

\* getPublishedEvents(): [...this._eventsMemory], a new array with the same events.
getPublishedEvents ==
    /\ returnedArray' = [ref |-> "copy", items |-> eventsMemory, fresh |-> TRUE]
    /\ UNCHANGED <<tables, eventVars, call, started, config, user, userLog>>

\* The caller changes the array it holds to the given contents: its own copy, or
\* _eventsMemory when that is the array it holds.
callerSets(contents) ==
    /\ returnedArray.ref # "none"
    /\ IF returnedArray.ref = "memory"
       THEN /\ eventsMemory' = contents
            /\ returnedArray' = [returnedArray EXCEPT !.fresh = FALSE]
       ELSE /\ eventsMemory' = eventsMemory
            /\ returnedArray' = [returnedArray EXCEPT !.items = contents, !.fresh = FALSE]
    /\ UNCHANGED <<tables, mockEvents, publishCalls, call, started, config, user, userLog>>

\* returned.push(event) by the caller.
callerPush(event) == callerSets(Append(ArrayContents, event))

\* returned.length = 0 by the caller.
callerClear == callerSets(<<>>)

-----------------------------------------------------------------------------
(* The User aggregate.                                                      *)

\* new User({id, name, balance}): balance is Number(balance).
User(id, name, balance) == [id |-> id, name |-> name, balance |-> Number(balance)]

ErrInsufficientFunds == "insufficient funds"

\* What a call on the aggregate leaves in the log.
Logged(field, amount, err) ==
    [userLog EXCEPT !.before = user.balance,
                    !.threw = err,
                    ![field] = IF err = NoError THEN Plus(@, Number(amount)) ELSE @]

\* deposit(amount): throws on amount <= 0, else balance += Number(amount).
deposit(amount) ==
    /\ IF LessOrEqual(Number(amount), 0)
       THEN /\ user' = user
            /\ userLog' = Logged("deposits", amount, ErrAmountPositive)
       ELSE /\ user' = [user EXCEPT !.balance = Plus(@, Number(amount))]
            /\ userLog' = Logged("deposits", amount, NoError)
    /\ started' = started + 1
    /\ UNCHANGED <<tables, eventVars, call, config, returnedArray>>

\* withdraw(amount): throws on amount <= 0 and on amount > balance, else
\* balance -= Number(amount).
withdraw(amount) ==
    /\ IF LessOrEqual(Number(amount), 0)
       THEN /\ user' = user
            /\ userLog' = Logged("withdrawals", amount, ErrAmountPositive)
       ELSE IF GreaterThan(Number(amount), user.balance)
       THEN /\ user' = user
            /\ userLog' = Logged("withdrawals", amount, ErrInsufficientFunds)
       ELSE /\ user' = [user EXCEPT !.balance = Minus(@, Number(amount))]
            /\ userLog' = Logged("withdrawals", amount, NoError)
    /\ started' = started + 1
    /\ UNCHANGED <<tables, eventVars, call, config, returnedArray>>

\* The objects as a run finds them: no event published, no array handed out, a User
\* constructed with the given balance.
InitObjects(balance) ==
    /\ publishCalls = <<>>
    /\ returnedArray = NoArray
    /\ user = User(ExistingUser, "Alice", balance)
    /\ userLog = [initial |-> Number(balance), deposits |-> 0, withdrawals |-> 0,
                  before |-> Number(balance), threw |-> NoError]

-----------------------------------------------------------------------------

\* The databases as a run finds them.  The users row of "u1" was created with
\* initBalance; the ledger of "u1" is empty, or holds the deposit of 1 that an earlier
\* run committed (call number 0).
PriorDeposit == [path |-> "none", pc |-> "done", cmd |-> Command(ExistingUser, 1, "deposit", Omitted),
                 n |-> 0, bal |-> 0, ver |-> 0, err |-> NoError,
                 acquired |-> 1, released |-> 1, queries |-> 0, resp |-> NoResponse]

InitDatabases(b, funded) ==
    /\ initBalance = b
    /\ walletUsers = [u \in {ExistingUser} |-> IF funded THEN b + 1 ELSE b]
    /\ walletTransactions = IF funded THEN {WalletRow(PriorDeposit)} ELSE {}
    /\ lambdaUsers = [u \in {ExistingUser} |-> IF funded THEN b + 1 ELSE b]
    /\ lambdaTransactions = IF funded THEN {LambdaRow(PriorDeposit)} ELSE {}

Init ==
    /\ deployment \in {"express", "lambda"}
    /\ \E b \in InitBalances, funded \in BOOLEAN : InitDatabases(b, funded)
    /\ mockEvents = <<>>
    /\ eventsMemory = <<>>
    /\ InitObjects(0)
    /\ call = [w \in Workers |-> IdleCall]
    /\ started = 0

Next ==
    \E w \in Workers :
        \/ started < MaxCalls /\ \E cmd \in Commands : processTransaction(w, cmd)
        \/ advisoryCheck(w)
        \/ saveTransactionSelect(w)
        \/ saveTransactionInsert(w)
        \/ saveTransactionUpdate(w)
        \/ saveTransactionCommit(w)
        \/ saveTransactionFails(w)
        \/ publishProcessed(w)
        \/ publishProcessedThrows(w)
        \/ started < MaxCalls /\ \E cmd \in Commands : execute(w, cmd)
        \/ pgSaveTransactionInsert(w)
        \/ pgSaveTransactionUpdate(w)
        \/ pgSaveTransactionCommit(w)
        \/ pgSaveTransactionFails(w)
        \/ publishCreated(w)
        \/ publishCreatedThrows(w)

Spec == Init /\ [][Next]_vars

-----------------------------------------------------------------------------
(* Sequential use: a call is made only when no call is in flight.          *)

MaxSeqCalls == 3

Quiescent == \A w \in Workers : call[w].pc \notin InFlight

NextSeq ==
    \E w \in Workers :
        \/ started < MaxSeqCalls /\ Quiescent /\ \E cmd \in Commands : processTransaction(w, cmd)
        \/ advisoryCheck(w)
        \/ saveTransactionSelect(w)
        \/ saveTransactionInsert(w)
        \/ saveTransactionUpdate(w)
        \/ saveTransactionCommit(w)
        \/ saveTransactionFails(w)
        \/ publishProcessed(w)
        \/ publishProcessedThrows(w)
        \/ started < MaxSeqCalls /\ Quiescent /\ \E cmd \in Commands : execute(w, cmd)
        \/ pgSaveTransactionInsert(w)
        \/ pgSaveTransactionUpdate(w)
        \/ pgSaveTransactionCommit(w)
        \/ pgSaveTransactionFails(w)
        \/ publishCreated(w)
        \/ publishCreatedThrows(w)

SpecSeq == Init /\ [][NextSeq]_vars

-----------------------------------------------------------------------------
(* Sequential use with the inputs a caller can send: amounts that are zero, *)
(* negative, NaN or a string, missing fields, a timestamp of the caller;    *)
(* and with a pool that can refuse a client and a ROLLBACK that can fail.   *)

MaxInputCalls == 2

RawAmounts == {1, 0, 0 - 1, NaN, AmountText}
RawTypes == {"deposit", "withdraw", "transfer"}

InputCommands ==
    {Command(ExistingUser, a, t, Omitted) : a \in RawAmounts, t \in RawTypes}
      \cup {Command(Omitted, a, t, Omitted) : a \in {1, 0}, t \in {"deposit", "transfer"}}
      \cup {WithTimestamp(Command(ExistingUser, 1, "deposit", Omitted), OldTimestamp),
            WithTimestamp(Command(ExistingUser, 1, "deposit", CallerId), OldTimestamp)}

InitInputs ==
    /\ deployment \in {"express", "lambda"}
    /\ \E funded \in BOOLEAN : InitDatabases(0, funded)
    /\ mockEvents = <<>>
    /\ eventsMemory = <<>>
    /\ InitObjects(0)
    /\ call = [w \in Workers |-> IdleCall]
    /\ started = 0

NextInputs ==
    \E w \in Workers :
        \/ started < MaxInputCalls /\ Quiescent
              /\ \E cmd \in InputCommands : processTransaction(w, cmd)
        \/ advisoryCheck(w)
        \/ saveTransactionSelect(w)
        \/ saveTransactionInsert(w)
        \/ saveTransactionUpdate(w)
        \/ saveTransactionCommit(w)
        \/ saveTransactionFails(w)
        \/ publishProcessed(w)
        \/ publishProcessedThrows(w)
        \/ started < MaxInputCalls /\ Quiescent
              /\ \E cmd \in InputCommands : execute(w, cmd)
        \/ pgSaveTransactionInsert(w)
        \/ pgSaveTransactionUpdate(w)
        \/ pgSaveTransactionCommit(w)
        \/ pgSaveTransactionFails(w)
        \/ publishCreated(w)
        \/ publishCreatedThrows(w)
        \/ saveTransactionConnectFails(w)
        \/ saveTransactionRollbackFails(w)
        \/ pgSaveTransactionConnectFails(w)
        \/ pgSaveTransactionRollbackFails(w)

SpecInputs == InitInputs /\ [][NextInputs]_vars

-----------------------------------------------------------------------------
(* A long history on the CT path: deposits of 1 for "u1", one after the    *)
(* other, from an empty ledger and a zero balance, until the ledger holds  *)
(* more rows than getTransactionsByUser returns by default.                *)

MaxOverLimit == 1

HistoryCalls == DefaultLimit + MaxOverLimit

InitHistory ==
    /\ deployment = "lambda"
    /\ InitDatabases(0, FALSE)
    /\ mockEvents = <<>>
    /\ eventsMemory = <<>>
    /\ InitObjects(0)
    /\ call = [w \in Workers |-> IdleCall]
    /\ started = 0

NextHistory ==
    \E w \in Workers :
        \/ started < HistoryCalls /\ Quiescent
             /\ execute(w, Command(ExistingUser, 1, "deposit", Omitted))
        \/ pgSaveTransactionInsert(w)
        \/ pgSaveTransactionUpdate(w)
        \/ pgSaveTransactionCommit(w)
        \/ publishCreated(w)

SpecHistory == InitHistory /\ [][NextHistory]_vars

-----------------------------------------------------------------------------
(* Reads that overlap with writes: deposits and withdraws of 1 for "u1", and *)
(* reads for "u1", for the user without a users row and without a userId.   *)

MaxReadCalls == 3

ReadUsers == {ExistingUser, AbsentUser, Omitted}

WriteCommands == {Command(ExistingUser, 1, t, Omitted) : t \in Types}

InitReads ==
    /\ deployment \in {"express", "lambda"}
    /\ \E funded \in BOOLEAN : InitDatabases(0, funded)
    /\ mockEvents = <<>>
    /\ eventsMemory = <<>>
    /\ InitObjects(0)
    /\ call = [w \in Workers |-> IdleCall]
    /\ started = 0

NextReads ==
    \E w \in Workers :
        \/ started < MaxReadCalls
              /\ \E operation \in ReadOperations, userId \in ReadUsers :
                    serviceRead(w, operation, userId)
        \/ repositoryGetUserTransactions(w)
        \/ repositoryGetUserBalance(w)
        \/ started < MaxReadCalls /\ \E userId \in ReadUsers : queryHandler(w, userId)
        \/ handlerGetTransactionsByUser(w)
        \/ handlerGetBalanceByUser(w)
        \/ started < MaxReadCalls /\ \E cmd \in WriteCommands : processTransaction(w, cmd)
        \/ advisoryCheck(w)
        \/ saveTransactionSelect(w)
        \/ saveTransactionInsert(w)
        \/ saveTransactionUpdate(w)
        \/ saveTransactionCommit(w)
        \/ publishProcessed(w)
        \/ started < MaxReadCalls /\ \E cmd \in WriteCommands : execute(w, cmd)
        \/ pgSaveTransactionInsert(w)
        \/ pgSaveTransactionUpdate(w)
        \/ pgSaveTransactionCommit(w)
        \/ publishCreated(w)

SpecReads == InitReads /\ [][NextReads]_vars

-----------------------------------------------------------------------------
(* Two users with a users row, "u1" and "u3", each with one committed       *)
(* deposit of 1; calls for either user overlap, some with the same          *)
(* transaction_id of the caller.                                            *)

MaxUserCalls == 2

PriorDepositOther ==
    [PriorDeposit EXCEPT !.cmd = Command(OtherUser, 1, "deposit", Omitted), !.n = 0 - 1]

UserCommands ==
    {Command(u, 1, t, Omitted) : u \in {ExistingUser, OtherUser}, t \in Types}
      \cup {Command(u, 1, "deposit", CallerId) : u \in {ExistingUser, OtherUser}}

InitUsers ==
    /\ deployment \in {"express", "lambda"}
    /\ initBalance = 0
    /\ walletUsers = [u \in {ExistingUser, OtherUser} |-> 1]
    /\ walletTransactions = {WalletRow(PriorDeposit), WalletRow(PriorDepositOther)}
    /\ lambdaUsers = [u \in {ExistingUser, OtherUser} |-> 1]
    /\ lambdaTransactions = {LambdaRow(PriorDeposit), LambdaRow(PriorDepositOther)}
    /\ mockEvents = <<>>
    /\ eventsMemory = <<>>
    /\ InitObjects(0)
    /\ call = [w \in Workers |-> IdleCall]
    /\ started = 0

NextUsers ==
    \E w \in Workers :
        \/ started < MaxUserCalls /\ \E cmd \in UserCommands : processTransaction(w, cmd)
        \/ advisoryCheck(w)
        \/ saveTransactionSelect(w)
        \/ saveTransactionInsert(w)
        \/ saveTransactionUpdate(w)
        \/ saveTransactionCommit(w)
        \/ saveTransactionFails(w)
        \/ publishProcessed(w)
        \/ started < MaxUserCalls /\ \E cmd \in UserCommands : execute(w, cmd)
        \/ pgSaveTransactionInsert(w)
        \/ pgSaveTransactionUpdate(w)
        \/ pgSaveTransactionCommit(w)
        \/ pgSaveTransactionFails(w)
        \/ publishCreated(w)

SpecUsers == InitUsers /\ [][NextUsers]_vars

-----------------------------------------------------------------------------
(* The User aggregate on its own: constructed with a balance that is not    *)
(* negative, then deposits and withdraws of amounts a caller can pass.      *)

MaxUserOperations == 3

UserBalances == {0, 1, 2}

InitUser ==
    /\ deployment = "lambda"
    /\ InitDatabases(0, FALSE)
    /\ mockEvents = <<>>
    /\ eventsMemory = <<>>
    /\ call = [w \in Workers |-> IdleCall]
    /\ started = 0
    /\ \E balance \in UserBalances : InitObjects(balance)

NextUser ==
    \/ started < MaxUserOperations /\ \E amount \in RawAmounts \cup Amounts : deposit(amount)
    \/ started < MaxUserOperations /\ \E amount \in RawAmounts \cup Amounts : withdraw(amount)

SpecUser == InitUser /\ [][NextUser]_vars

-----------------------------------------------------------------------------
(* EventPublisherSimulator on its own: publish calls, getPublishedEvents,   *)
(* and a caller that changes the array it was given.                        *)

MaxPublishCalls == 3

Events ==
    {TransactionCreatedEvent(TxOf(Command(ExistingUser, a, "deposit", Omitted), a)) :
        a \in Amounts}

InitEvents ==
    /\ deployment = "lambda"
    /\ InitDatabases(0, FALSE)
    /\ mockEvents = <<>>
    /\ eventsMemory = <<>>
    /\ InitObjects(0)
    /\ call = [w \in Workers |-> IdleCall]
    /\ started = 0

NextEvents ==
    \/ started < MaxPublishCalls /\ \E event \in Events : publish(event)
    \/ getPublishedEvents
    \/ Len(ArrayContents) <= MaxPublishCalls /\ \E event \in Events : callerPush(event)
    \/ callerClear

SpecEvents == InitEvents /\ [][NextEvents]_vars

-----------------------------------------------------------------------------
(* Properties.                                                             *)

IsTS(w) == call[w].path = "TS"
IsCT(w) == call[w].path = "CT"

\* The row of the call is among the committed rows.
WalletCommitted(w) == IsTS(w) /\ WalletRow(call[w]) \in walletTransactions
LambdaCommitted(w) == IsCT(w) /\ LambdaRow(call[w]) \in lambdaTransactions

\* users.balance of "u1" is the initial balance plus the signed sum of the ledger.
WalletConsistent ==
    walletUsers[ExistingUser] = initBalance + getUserBalance(ExistingUser)
LambdaConsistent ==
    lambdaUsers[ExistingUser] =
        initBalance + SumRows(RowsOf(lambdaTransactions, ExistingUser))

\* C1: on the TransactionService / PostgresRepository path the stored users.balance
\* equals, in every reachable state, the initial balance plus the signed sum of the
\* committed rows of the user (the balance getUserBalance derives).
C1_MaintainedBalanceConsistent == deployment = "express" => WalletConsistent

\* C5: once all overlapping PostgresRepository.saveTransaction calls have committed
\* (no call is in flight), users.balance equals the initial balance plus the signed
\* sum of all committed amounts.
C5_NoLostUpdate == (deployment = "express" /\ Quiescent) => WalletConsistent

\* C4: two concurrent withdrawals of the same user that each ask for the full
\* balance, both having read the same balance of the same state of the user's row,
\* never both succeed.
C4_OneWithdrawalWins ==
    \A w1, w2 \in Workers :
        (/\ w1 # w2
         /\ IsTS(w1) /\ IsTS(w2)
         /\ call[w1].cmd.type = "withdraw" /\ call[w2].cmd.type = "withdraw"
         /\ call[w1].cmd.userId = call[w2].cmd.userId
         /\ call[w1].cmd.amount = call[w1].bal
         /\ call[w2].cmd.amount = call[w2].bal
         /\ call[w1].bal = call[w2].bal
         /\ call[w1].ver = call[w2].ver)
        => ~(call[w1].pc = "done" /\ call[w2].pc = "done")

\* What a client can read of the store.
Reads ==
    <<getUserBalance(ExistingUser), getUserTransactions(ExistingUser),
      getUserBalance(AbsentUser), getUserTransactions(AbsentUser),
      getBalanceByUser(ExistingUser), getTransactionsByUser(ExistingUser, DefaultLimit),
      getBalanceByUser(AbsentUser), getTransactionsByUser(AbsentUser, DefaultLimit)>>

\* The call leaves its unit by a failure in this step.
FailsInUnit(w) == call[w].pc \in InUnit /\ call'[w].pc = "failed"

\* The call completes its COMMIT in this step.
CommitsNow(w) == call[w].pc = "commit" /\ call'[w].pc = "publish"

\* C3: a saveTransaction (of either repository) in which a step fails after BEGIN and
\* before COMMIT completes leaves the committed transactions and users.balance, and
\* every read of them, exactly as they were: its row is not among the committed rows,
\* and the tables change only in the step in which some unit completes its COMMIT.
C3_FailedUnitLeavesNoTrace ==
    [][/\ \A w \in Workers :
              FailsInUnit(w) =>
                  /\ tables' = tables
                  /\ Reads' = Reads
                  /\ WalletRow(call[w]) \notin walletTransactions'
                  /\ LambdaRow(call[w]) \notin lambdaTransactions'
       /\ tables' # tables => \E w \in Workers : CommitsNow(w)]_vars

\* A unit has failed at one of its statements and was rolled back.
C3_Witness ==
    \E w \in Workers : call[w].pc = "failed" /\ call[w].err \in {ErrStore, ErrDuplicateKey}

C7_NoNegativeBalanceCT == deployment = "lambda" => lambdaUsers[ExistingUser] >= 0

\* C9: two TransactionService.processTransaction calls that carry the same
\* caller-supplied id never both commit a row and a balance change.
C9_IdempotentReplayTS ==
    \A w1, w2 \in Workers :
        (/\ w1 # w2
         /\ IsTS(w1) /\ IsTS(w2)
         /\ call[w1].cmd.id # Omitted
         /\ call[w1].cmd.id = call[w2].cmd.id)
        => ~(WalletCommitted(w1) /\ WalletCommitted(w2))

\* C10: a call whose transaction is committed does not end in an error: a failing
\* publish leaves processTransaction / execute returning the persisted transaction.
C10_PublishFailureIsNoError ==
    \A w \in Workers :
        (WalletCommitted(w) \/ LambdaCommitted(w)) => call[w].pc # "failed"

\* C8: on the CreateTransactionService path a caller-supplied transaction_id is
\* applied at most once: the ledger holds at most one row with it, two calls that
\* carry it never both commit, and users.balance is the initial balance plus the
\* signed sum of the committed rows.
C8_IdempotentReplayCT ==
    deployment = "lambda" =>
        /\ Cardinality({r \in lambdaTransactions : r.transaction_id = CallerId}) <= 1
        /\ \A w1, w2 \in Workers :
              (/\ w1 # w2
               /\ IsCT(w1) /\ IsCT(w2)
               /\ call[w1].cmd.id # Omitted
               /\ call[w1].cmd.id = call[w2].cmd.id)
              => ~(LambdaCommitted(w1) /\ LambdaCommitted(w2))
        /\ LambdaConsistent

\* The second call with the transaction_id was rejected by the key and rolled back,
\* the row of the first is in the ledger.
C8_Witness ==
    /\ \E w \in Workers :
          IsCT(w) /\ call[w].cmd.id = CallerId /\ call[w].pc = "failed"
            /\ call[w].err = ErrDuplicateKey
    /\ \E r \in lambdaTransactions : r.transaction_id = CallerId

\* C2: for every user_id execute accepts, after successful execute calls from an
\* empty ledger and a zero balance, the balance getBalanceByUser returns equals the
\* signed sum of the transactions getTransactionsByUser returns for that user.
C2_BalanceEqualsReturnedSum ==
    (deployment = "lambda" /\ initBalance = 0) =>
        \A u \in {ExistingUser, AbsentUser} :
            getTransactionsByUser(u, DefaultLimit) # <<>> =>
                /\ u \in DOMAIN lambdaUsers      \* the balance returned is not null
                /\ getBalanceByUser(u) = SumList(getTransactionsByUser(u, DefaultLimit))

\* For the user that has a users row, users.balance is the signed sum of all its
\* committed rows, which are the rows getTransactionsByUser returns while there are
\* no more of them than its limit.
ExistingUserBalanceIsLedgerSum ==
    (deployment = "lambda" /\ initBalance = 0) =>
        LET rows == RowsOf(lambdaTransactions, ExistingUser)
        IN  /\ getBalanceByUser(ExistingUser) = SumRows(rows)
            /\ Cardinality(rows) <= DefaultLimit =>
                  getBalanceByUser(ExistingUser) =
                      SumList(getTransactionsByUser(ExistingUser, DefaultLimit))

-----------------------------------------------------------------------------
(* Events and commits.                                                     *)

PublishFails(w) == call[w].pc = "publish" /\ call'[w].pc = "failed"
PublishReturns(w) == call[w].pc = "publish" /\ call'[w].pc = "done"

\* C11: a publish that fails after the commit undoes nothing: the step leaves the
\* transactions and the balances as they are, the row of the call stays in the
\* ledger, and no step ever removes a committed row.
C11_PublishFailureKeepsCommit ==
    [][/\ \A w \in Workers :
            PublishFails(w) =>
                /\ tables' = tables
                /\ IsTS(w) => WalletRow(call[w]) \in walletTransactions'
                /\ IsCT(w) => LambdaRow(call[w]) \in lambdaTransactions'
       /\ walletTransactions \subseteq walletTransactions'
       /\ lambdaTransactions \subseteq lambdaTransactions']_vars

\* A call has failed on its publish and its row is in the ledger.
C11_Witness ==
    \E w \in Workers :
        /\ call[w].pc = "failed" /\ call[w].err = ErrPublish
        /\ WalletCommitted(w) \/ LambdaCommitted(w)

\* C12: an event is published only by a call whose write has committed, at the
\* moment the call returns: the step appends exactly one event, whose payload is
\* the committed row of the call; no other step changes the published events, and
\* a call returns only through that step.
C12_EventFollowsCommit ==
    [][/\ \A w \in Workers :
            PublishReturns(w) =>
                \/ /\ IsTS(w)
                   /\ WalletRow(call[w]) \in walletTransactions
                   /\ mockEvents' = Append(mockEvents, mockEvents'[Len(mockEvents')])
                   /\ mockEvents'[Len(mockEvents')].payload = WalletRow(call[w])
                   /\ eventsMemory' = eventsMemory
                \/ /\ IsCT(w)
                   /\ LambdaRow(call[w]) \in lambdaTransactions
                   /\ eventsMemory' = Append(eventsMemory, eventsMemory'[Len(eventsMemory')])
                   /\ eventsMemory'[Len(eventsMemory')].payload = LambdaRow(call[w])
                   /\ mockEvents' = mockEvents
       /\ eventVars' # eventVars => \E w \in Workers : PublishReturns(w)
       /\ \A w \in Workers :
            (call'[w].pc = "done" /\ call'[w] # call[w]) => PublishReturns(w)]_vars

\* A call has returned and the published events hold its committed row.
C12_Witness ==
    \E w \in Workers :
        /\ call[w].pc = "done"
        /\ \/ IsTS(w) /\ \E i \in 1 .. Len(mockEvents) :
                  mockEvents[i].payload = WalletRow(call[w])
           \/ IsCT(w) /\ \E i \in 1 .. Len(eventsMemory) :
                  eventsMemory[i].payload = LambdaRow(call[w])

-----------------------------------------------------------------------------
(* Validation.                                                             *)

\* The rules a command has to meet: a userId, an amount that is a positive number,
\* a type that is deposit or withdraw.
UserIdViolated(cmd) == cmd.userId = Omitted
AmountViolated(cmd) == cmd.amount \in {NaN, AmountText} \/ cmd.amount <= 0
TypeViolated(cmd) == cmd.type \notin Types

Entered(w) == call[w].path # "none"
UserIdErrors == {ErrUserId, ErrUserIdRequired}
AmountErrors == {ErrAmount, ErrAmountPositive}
TypeErrors == {ErrType, ErrInvalidTypeCT}

\* C13: a call whose input breaks a rule (no userId, an amount that is not a
\* positive number, an unknown type) is rejected with a validation error before it
\* reaches the repository, so it records nothing and publishes nothing.
C13_InvalidInputNeverReachesStore ==
    \A w \in Workers :
        (Entered(w) /\ (UserIdViolated(call[w].cmd) \/ AmountViolated(call[w].cmd)
                          \/ TypeViolated(call[w].cmd)))
        => /\ call[w].pc = "failed"
           /\ call[w].err \in UserIdErrors \cup AmountErrors \cup TypeErrors

\* A call that the validation of the code rejects changes neither the tables nor
\* the published events, and is over in the step that starts it.
RejectedByValidationHasNoEffect ==
    [][\A w \in Workers :
          (call'[w] # call[w]
             /\ call'[w].err \in UserIdErrors \cup AmountErrors \cup TypeErrors)
          => /\ call[w].pc \notin InFlight
             /\ call'[w].pc = "failed"
             /\ tables' = tables
             /\ eventVars' = eventVars]_vars

\* C14: a call whose input breaks several rules at once is rejected with the error
\* of the first broken rule, in the order userId, amount, type.
C14_FirstViolatedRuleReported ==
    \A w \in Workers :
        LET cmd == call[w].cmd
            several == \/ UserIdViolated(cmd) /\ AmountViolated(cmd)
                       \/ UserIdViolated(cmd) /\ TypeViolated(cmd)
                       \/ AmountViolated(cmd) /\ TypeViolated(cmd)
        IN  (Entered(w) /\ several)
            => /\ call[w].pc = "failed"
               /\ call[w].err \in
                    IF UserIdViolated(cmd) THEN UserIdErrors ELSE AmountErrors

\* The order holds among the rules the code enforces: the error reported is never
\* one of a later rule when the validation rejects the command for an earlier one.
ReportedRuleIsFirstEnforced ==
    \A w \in Workers :
        LET cmd == call[w].cmd
        IN  (Entered(w) /\ call[w].err \in AmountErrors \cup TypeErrors)
            => /\ ~UserIdViolated(cmd)
               /\ call[w].err \in TypeErrors =>
                    (cmd.amount \in {NaN, AmountText} \/ cmd.amount > 0)

-----------------------------------------------------------------------------
(* Rejections on the TransactionService path.                              *)

\* The withdraw of call w asks for more than the balance of its user, the one
\* stored in users or the one getUserBalance derives.
OverBalance(w) ==
    /\ IsTS(w)
    /\ call[w].cmd.type = "withdraw"
    /\ call[w].cmd.userId \in DOMAIN walletUsers
    /\ \/ call[w].cmd.amount > walletUsers[call[w].cmd.userId]
       \/ call[w].cmd.amount > getUserBalance(call[w].cmd.userId)

\* C15: a processTransaction withdraw for more than the balance fails with the
\* insufficient-balance error (or with the failure of the store); every step it
\* takes leaves the transactions, the balance and the published events unchanged.
C15_RejectedWithdrawalChangesNothing ==
    [][\A w \in Workers :
          /\ (OverBalance(w) /\ call[w].pc \in {"advisory", "select"}
                /\ call'[w] # call[w])
             => /\ tables' = tables
                /\ eventVars' = eventVars
                /\ \/ /\ call'[w].pc = "failed"
                      /\ call'[w].err \in {ErrInsufficient, ErrStore}
                   \/ /\ call[w].pc = "advisory"
                      /\ call'[w].pc = "select"
                      /\ call[w].cmd.amount <= getUserBalance(call[w].cmd.userId)
          /\ (call'[w] # call[w] /\ call[w].pc \notin InFlight
                /\ call'[w].path = "TS" /\ call'[w].cmd.type = "withdraw")
             => call'[w].pc \in {"advisory", "failed"}]_vars

\* A withdraw for more than the balance has been rejected.
C15_Witness ==
    \E w \in Workers :
        OverBalance(w) /\ call[w].pc = "failed" /\ call[w].err = ErrInsufficient

\* The call is in saveTransaction, at its SELECT, for a user without a users row.
SelectsUnknownUser(w) ==
    /\ IsTS(w)
    /\ call[w].pc = "select"
    /\ call[w].cmd.userId \notin DOMAIN walletUsers

\* C16: PostgresRepository.saveTransaction for a userId without a users row fails
\* with the user-not-found error (or with the failure of the store) and changes
\* nothing; no transaction row of such a userId exists and no users row appears.
C16_UnknownUserRejected ==
    /\ [](deployment = "express" =>
            /\ \A r \in walletTransactions : r.user_id \in DOMAIN walletUsers
            /\ DOMAIN walletUsers = {ExistingUser})
    /\ [][\A w \in Workers :
            (SelectsUnknownUser(w) /\ call'[w] # call[w])
            => /\ call'[w].pc = "failed"
               /\ call'[w].err \in {ErrUserNotFound, ErrStore}
               /\ tables' = tables]_vars

\* saveTransaction has rejected a call for an unknown user.
C16_Witness ==
    \E w \in Workers :
        /\ IsTS(w) /\ call[w].cmd.userId = AbsentUser
        /\ call[w].pc = "failed" /\ call[w].err = ErrUserNotFound

-----------------------------------------------------------------------------
(* Reads of the history.                                                   *)

\* The place of row r in a list that holds it.
PositionIn(list, r) == CHOOSE i \in 1 .. Len(list) : list[i] = r

\* Under sequential use eventsMemory holds the transactions of the calls that have
\* returned, in the order in which they returned.
ListedNewestFirst(i, j) ==
    LET t1 == eventsMemory[i].payload
        t2 == eventsMemory[j].payload
        history == getTransactionsByUser(t1.user_id, DefaultLimit)
    IN  PositionIn(history, t2) < PositionIn(history, t1)

\* C17: of two transactions of a user, the one whose call started after the call
\* of the other had returned is listed first by getTransactionsByUser, also when
\* the caller supplies the timestamp.
C17_HistoryMostRecentFirst ==
    deployment = "lambda" =>
        \A i, j \in 1 .. Len(eventsMemory) :
            (i < j /\ eventsMemory[i].payload.user_id = eventsMemory[j].payload.user_id)
            => ListedNewestFirst(i, j)

\* The order holds between transactions whose timestamps both come from the clock.
ClockTimestampsKeepOrder ==
    deployment = "lambda" =>
        \A i, j \in 1 .. Len(eventsMemory) :
            (/\ i < j
             /\ eventsMemory[i].payload.user_id = eventsMemory[j].payload.user_id
             /\ eventsMemory[i].payload.timestamp # OldTimestamp
             /\ eventsMemory[j].payload.timestamp # OldTimestamp)
            => ListedNewestFirst(i, j)

\* The limits a reader asks for.
MaxLimit == 3
Limits == 0 .. MaxLimit

Min(a, b) == IF a <= b THEN a ELSE b

\* C18: getTransactionsByUser(userId, limit) returns min(limit, n) rows, n being the
\* number of committed rows of userId; they are distinct rows of that user, in
\* descending order of timestamp, and no row left out has a greater timestamp
\* than a row returned.
C18_LimitedHistory ==
    deployment = "lambda" =>
        \A u \in {ExistingUser, AbsentUser}, l \in Limits :
            LET rows == RowsOf(lambdaTransactions, u)
                history == getTransactionsByUser(u, l)
                returned == {history[i] : i \in 1 .. Len(history)}
            IN  /\ Len(history) = Min(l, Cardinality(rows))
                /\ Cardinality(returned) = Len(history)
                /\ returned \subseteq rows
                /\ \A r \in returned : r.user_id = u
                /\ \A i \in 1 .. Len(history) - 1 :
                      history[i].timestamp >= history[i + 1].timestamp
                /\ \A r \in returned, o \in rows \ returned :
                      r.timestamp >= o.timestamp

\* One user has more rows than a limit asked for, and the other user has rows too.
C18_Witness ==
    /\ deployment = "lambda"
    /\ Cardinality(RowsOf(lambdaTransactions, ExistingUser)) >= 2
    /\ RowsOf(lambdaTransactions, AbsentUser) # {}
    /\ Len(getTransactionsByUser(ExistingUser, 1)) = 1

-----------------------------------------------------------------------------
(* Reads of the balance.                                                   *)

\* C19: once a processTransaction / execute call has returned successfully, the
\* balance read for its user (getUserBalance, getBalanceByUser) is the balance the
\* user started with plus the signed sum of all the committed transactions of
\* the user, the one of that call included.
C19_BalanceReflectsCommits ==
    \A w \in Workers :
        LET u == call[w].cmd.userId
        IN  /\ (IsTS(w) /\ call[w].pc = "done") =>
                  /\ WalletRow(call[w]) \in walletTransactions
                  /\ getUserBalance(u) = SumRows(RowsOf(walletTransactions, u))
            /\ (IsCT(w) /\ call[w].pc = "done") =>
                  /\ LambdaRow(call[w]) \in lambdaTransactions
                  /\ u \in DOMAIN lambdaUsers      \* the balance returned is not null
                  /\ getBalanceByUser(u) =
                        Plus(initBalance, SumRows(RowsOf(lambdaTransactions, u)))

\* The same, for the calls of a user that has a users row.
KnownUserBalanceReflectsCommits ==
    \A w \in Workers :
        LET u == call[w].cmd.userId
        IN  /\ (IsTS(w) /\ call[w].pc = "done") =>
                  /\ WalletRow(call[w]) \in walletTransactions
                  /\ getUserBalance(u) = SumRows(RowsOf(walletTransactions, u))
            /\ (IsCT(w) /\ call[w].pc = "done" /\ u \in DOMAIN lambdaUsers) =>
                  /\ LambdaRow(call[w]) \in lambdaTransactions
                  /\ getBalanceByUser(u) =
                        Plus(initBalance, SumRows(RowsOf(lambdaTransactions, u)))

-----------------------------------------------------------------------------
(* The transaction a call returns.                                         *)

\* processTransaction returns txRes.rows[0], the row of INSERT ... RETURNING *;
\* execute returns the tx object it built and handed to saveTransaction.
Returned(w) == IF IsTS(w) THEN WalletRow(call[w]) ELSE LambdaRow(call[w])

\* execute returns the committed row, with the transaction_id and the timestamp of
\* the caller when the command carries them.
ExecuteReturnsPersisted ==
    \A w \in Workers :
        (IsCT(w) /\ call[w].pc = "done") =>
            /\ Returned(w) \in lambdaTransactions
            /\ call[w].cmd.id # Omitted =>
                  Returned(w).transaction_id = call[w].cmd.id
            /\ call[w].cmd.timestamp # NoTimestamp =>
                  Returned(w).timestamp = call[w].cmd.timestamp

\* C20: the transaction a successful processTransaction / execute returns is the
\* committed row, and it carries the id (and timestamp) of the caller when the
\* command supplies them.
C20_ReturnedIsPersisted ==
    /\ ExecuteReturnsPersisted
    /\ \A w \in Workers :
          (IsTS(w) /\ call[w].pc = "done") =>
              /\ Returned(w) \in walletTransactions
              /\ call[w].cmd.id # Omitted =>
                    ToString(Returned(w).id) = call[w].cmd.id

\* The clients the calls hold: taken from the pool and not given back.
CheckedOut(w) == call[w].acquired - call[w].released

\* C23: every client saveTransaction takes with pool.connect() is released exactly
\* once before the call completes, whether the unit commits, a step fails and is
\* rolled back, or the ROLLBACK itself fails: a call holds a client only while its
\* unit is open, never takes or releases more than one, and no client is checked out
\* once the calls are complete.
C23_ClientReleasedOnce ==
    \A w \in Workers :
        /\ call[w].acquired \in {0, 1}
        /\ call[w].released \in {0, 1}
        /\ call[w].pc \in {"insert", "update", "commit"} /\ ~(IsCT(w) /\ call[w].pc = "insert")
              => CheckedOut(w) = 1
        /\ call[w].pc \notin InUnit => CheckedOut(w) = 0
        /\ (call[w].pc \in {"publish", "done"} /\ call[w].path # "none")
              => call[w].acquired = 1 /\ call[w].released = 1

\* A call whose statement and whose ROLLBACK both failed has completed.
C23_Witness ==
    \E w \in Workers :
        call[w].pc = "failed" /\ call[w].err = ErrRollback /\ call[w].acquired = 1

\* The errors of the steps of saveTransaction: a statement the store refuses, and
\* the three errors saveTransaction throws itself.
StepErrors == {ErrStore, ErrDuplicateKey, ErrUserNotFound, ErrInsufficient, ErrInvalidType}

\* C28: when a step inside saveTransaction fails, the error thrown to the caller is
\* that step's error, whether the ROLLBACK that follows succeeds or fails (a call
\* that has taken a client and failed did so in its unit, or later in publish).
C28_StepErrorPropagates ==
    \A w \in Workers :
        (call[w].pc = "failed" /\ call[w].acquired = 1 /\ call[w].err # ErrPublish)
            => call[w].err \in StepErrors

\* A row's amount is a number above zero and its type is one of the two.
WellFormed(r) ==
    /\ r.amount \notin {NaN, AmountText}
    /\ r.amount > 0
    /\ r.type \in Types

\* C22: every committed row created through processTransaction or execute has a
\* numeric amount above zero (never negative, zero or non-numeric) and a type that is
\* deposit or withdraw.
C22_CommittedRowsWellFormed ==
    /\ \A r \in walletTransactions : WellFormed(r)
    /\ \A r \in lambdaTransactions : WellFormed(r)

\* The rows PostgresRepository commits are well formed: typeof amount === "number"
\* and amount <= 0 keep out everything but NaN, and NaN fails the funds arithmetic
\* only after the row is inserted, so this holds for the types and the signs.
CommittedTypesAndSigns ==
    /\ \A r \in walletTransactions : r.type \in Types /\ (r.amount = NaN \/ r.amount > 0)
    /\ \A r \in lambdaTransactions : r.type \in Types /\ (r.amount = NaN \/ r.amount > 0)

\* The call is a withdraw the advisory check has rejected: it failed with the
\* insufficient-balance error before saveTransaction took a client.
RejectedByAdvisory(w) ==
    /\ IsTS(w)
    /\ call[w].cmd.type = "withdraw"
    /\ call[w].pc = "failed"
    /\ call[w].err = ErrInsufficient
    /\ call[w].acquired = 0

\* C24: the advisory check of processTransaction (against the balance getUserBalance
\* derives from the ledger) never rejects a withdraw that the check inside
\* saveTransaction (against the stored users.balance) would accept.  In sequential
\* use the store is, while the rejected call is the last one, as the check found it.
C24_AdvisoryAgreesWithStore ==
    \A w \in Workers :
        (RejectedByAdvisory(w) /\ call[w].cmd.userId \in DOMAIN walletUsers)
            => FundsCheckRejects(call[w].cmd.amount, walletUsers[call[w].cmd.userId])

\* When the users row was created with balance zero, sequential use keeps the two
\* balances equal and the two checks agree.
AdvisoryAgreesFromZero ==
    initBalance = 0 => C24_AdvisoryAgreesWithStore

\* C26: no lost update in PgTransactionWriteRepositoryAdapter.saveTransaction: for
\* calls on the same existing user that overlap, once all of them have committed or
\* failed, users.balance is the initial balance plus the signed sum of the committed
\* amounts.
C26_NoLostUpdateCT == (deployment = "lambda" /\ Quiescent) => LambdaConsistent

\* Two calls for "u1" that overlapped (the second caller is taken only while the
\* first is in flight) have both committed and returned.
C26_Witness ==
    /\ \A w \in Workers :
          /\ call[w].pc = "done"
          /\ call[w].cmd.userId = ExistingUser
          /\ LambdaCommitted(w)
    /\ \E w \in Workers : call[w].cmd.type = "withdraw"

\* C29: a withdraw whose amount equals the current balance passes the advisory check
\* and the check of saveTransaction (no error other than a failure of the store ends
\* it there) and its commit leaves the balance at zero; a withdraw of the balance
\* plus one is rejected by either check.
C29_BoundaryWithdraw ==
    [][\A w \in Workers :
          (/\ IsTS(w)
           /\ call[w].cmd.type = "withdraw"
           /\ call[w].cmd.userId \in DOMAIN walletUsers
           /\ call'[w] # call[w])
          => LET amount == call[w].cmd.amount
                 stored == walletUsers[call[w].cmd.userId]
                 derived == getUserBalance(call[w].cmd.userId)
             IN  /\ (call[w].pc = "advisory" /\ amount = derived)
                       => call'[w].pc = "select"
                 /\ (call[w].pc = "advisory" /\ amount = derived + 1)
                       => call'[w].pc = "failed" /\ call'[w].err = ErrInsufficient
                 /\ (call[w].pc = "select" /\ amount = stored)
                       => \/ call'[w].pc = "insert"
                          \/ call'[w].pc = "failed" /\ call'[w].err = ErrStore
                 /\ (call[w].pc = "select" /\ amount = stored + 1)
                       => /\ call'[w].pc = "failed"
                          /\ call'[w].err \in {ErrInsufficient, ErrStore}
                 /\ (CommitsNow(w) /\ amount = call[w].bal)
                       => walletUsers'[call[w].cmd.userId] = 0
      ]_vars

\* A withdraw of the whole balance has committed and returned, and the balance is zero.
C29_Witness ==
    \E w \in Workers :
        /\ IsTS(w)
        /\ call[w].cmd.type = "withdraw"
        /\ call[w].pc = "done"
        /\ call[w].cmd.amount = call[w].bal
        /\ WalletCommitted(w)
        /\ walletUsers[call[w].cmd.userId] = 0
        /\ getUserBalance(call[w].cmd.userId) = 0

\* The user has no committed transaction.
NoTransactions(userId) == RowsOf(walletTransactions, userId) = {}

\* C30: getUserBalance of a user without committed transactions, with or without a
\* users row, is 0, and the only step a withdraw in flight for such a user takes is
\* its rejection by the advisory check with the insufficient-balance error, the
\* store unchanged and no client taken.
C30_ZeroBalanceDefault ==
    [][/\ \A u \in {ExistingUser, AbsentUser} :
             NoTransactions(u) => getUserBalance(u) = 0
       /\ \A w \in Workers :
             (/\ IsTS(w)
              /\ call[w].cmd.type = "withdraw"
              /\ NoTransactions(call[w].cmd.userId)
              /\ call[w].pc \in InFlight
              /\ call'[w] # call[w])
             => /\ call[w].pc = "advisory"
                /\ call'[w].pc = "failed"
                /\ call'[w].err = ErrInsufficient
                /\ call'[w].acquired = 0
                /\ UNCHANGED tables
      ]_vars

\* A first withdraw was rejected by the advisory check: of the user without a users
\* row, and of a user whose users row holds a balance.
C30_Witness ==
    \E w \in Workers :
        /\ RejectedByAdvisory(w)
        /\ NoTransactions(call[w].cmd.userId)
        /\ \/ call[w].cmd.userId = AbsentUser
           \/ walletUsers[call[w].cmd.userId] >= call[w].cmd.amount

\* The call is a read.
IsRead(c) == c.path \in {"TSread", "query"}

\* C25: reads (TransactionService.getUserTransactions and getUserBalance, the query
\* Lambda handler with getTransactionsByUser and getBalanceByUser) leave the
\* transactions, the balances and the event lists unchanged, and a read without a
\* userId ends at once, with "UserId is required" or with status 400, having sent no
\* query to the store.
C25_ReadsDoNotMutate ==
    [][\A w \in Workers :
          (IsRead(call'[w]) /\ call'[w] # call[w])
          => /\ UNCHANGED <<tables, eventVars>>
             /\ call'[w].cmd.userId = Omitted
                   => /\ call'[w].queries = 0
                      /\ \/ call'[w].pc = "failed" /\ call'[w].err = ErrUserIdIsRequired
                         \/ call'[w].pc = "done" /\ call'[w].resp.statusCode = 400
      ]_vars

\* A read with a userId has answered from a store that holds a row written by a
\* call, and a read without a userId has ended.
C25_Witness ==
    /\ \E w \in Workers :
          /\ IsRead(call[w])
          /\ call[w].pc = "done"
          /\ call[w].resp.statusCode = 200
          /\ call[w].queries > 0
    /\ \E w \in Workers :
          /\ IsRead(call[w])
          /\ call[w].cmd.userId = Omitted
          /\ call[w].pc \in Completed

\* C27: the balance the query Lambda handler returns equals the signed sum of the
\* transactions it returns (user with a users row created with balance zero and
\* fewer than 100 transactions), also when a saveTransaction commits while the
\* handler runs.
C27_SnapshotConsistentQuery ==
    \A w \in Workers :
        (/\ call[w].path = "query"
         /\ call[w].pc = "done"
         /\ call[w].resp.statusCode = 200
         /\ call[w].resp.hasBalance)
        => call[w].resp.balance = SumList(call[w].resp.transactions)

\* Without a commit between the two queries of the handler the answer is consistent:
\* when the handler answers, the balance read equals the sum of the rows in the ledger.
QueryAnswersCurrentBalance ==
    [][\A w \in Workers :
          (call[w].path = "query" /\ call[w].pc = "balance" /\ call'[w].pc = "done"
              /\ call'[w].resp.hasBalance)
          => call'[w].resp.balance =
                SumList(getTransactionsByUser(call[w].cmd.userId, DefaultLimit))]_vars

\* The next step of the call when nothing fails.
Proceeds(w) ==
    \/ advisoryCheck(w)
    \/ saveTransactionSelect(w)
    \/ saveTransactionInsert(w)
    \/ saveTransactionUpdate(w)
    \/ saveTransactionCommit(w)
    \/ publishProcessed(w)
    \/ pgSaveTransactionInsert(w)
    \/ pgSaveTransactionUpdate(w)
    \/ pgSaveTransactionCommit(w)
    \/ publishCreated(w)

\* What the store holds of a user: the user's rows and balance in either database.
StoreOf(wt, wu, lt, lu, u) ==
    <<RowsOf(wt, u), IF u \in DOMAIN wu THEN <<wu[u]>> ELSE <<>>,
      RowsOf(lt, u), IF u \in DOMAIN lu THEN <<lu[u]>> ELSE <<>>>>

\* A step of a call in flight leaves the rows and the balance of every other user
\* as they were.
LeavesOtherUsers ==
    \A w \in Workers :
        (call[w].pc \in InFlight /\ call'[w] # call[w])
        => \A u \in {ExistingUser, OtherUser, AbsentUser} \ {call[w].cmd.userId} :
              StoreOf(walletTransactions', walletUsers', lambdaTransactions', lambdaUsers', u)
                = StoreOf(walletTransactions, walletUsers, lambdaTransactions, lambdaUsers, u)

\* Every other call in flight is for another user.
OnlyOtherUsersInFlight(w) ==
    \A d \in Workers \ {w} :
        call[d].pc \in InFlight => call[d].cmd.userId # call[w].cmd.userId

\* No other call in flight carries the transaction_id of the call.
NoSharedKeyInFlight(w) ==
    \A d \in Workers \ {w} :
        (call[d].pc \in InFlight /\ IsCT(d) /\ IsCT(w))
            => LambdaRow(call[d]).transaction_id # LambdaRow(call[w]).transaction_id

\* The call fails in this step on a transaction_id that a row of another user holds.
FailsOnKeyOfOtherUser(w) ==
    /\ call[w].pc \in InFlight
    /\ call'[w].pc = "failed"
    /\ call'[w].err = ErrDuplicateKey
    /\ \E r \in lambdaTransactions :
          /\ r.transaction_id = LambdaRow(call[w]).transaction_id
          /\ r.user_id # call[w].cmd.userId

C31_UserInvariant ==
    /\ user.balance # NaN
    /\ user.balance >= 0
    /\ user.balance = userLog.initial + userLog.deposits - userLog.withdrawals
    /\ userLog.threw # NoError => user.balance = userLog.before

\* With amounts that are numbers the aggregate keeps its invariant: the balance is
\* NaN only after a call with an amount that is NaN, and is otherwise as claimed.
UserInvariantUnlessNaN ==
    /\ userLog.threw # NoError => user.balance = userLog.before
    /\ user.balance # NaN
          => /\ user.balance >= 0
             /\ user.balance = userLog.initial + userLog.deposits - userLog.withdrawals

\* C32: EventPublisherSimulator keeps an append-only record: _eventsMemory holds
\* exactly the events of the publish calls, one per call and in call order, what
\* getPublishedEvents returns is that list, and no change a caller makes to an array
\* it was given alters it.
C32_AppendOnlyRecord ==
    [][/\ eventsMemory' = publishCalls'
       /\ (returnedArray'.fresh /\ returnedArray' # returnedArray)
              => ArrayContents' = publishCalls'
       /\ publishCalls' # publishCalls
              => \E event \in Events : publishCalls' = Append(publishCalls, event)
      ]_vars

\* The caller has changed the array it was given, which now differs from the two
\* events published.
C32_Witness ==
    /\ Len(publishCalls) = 2
    /\ returnedArray.ref # "none"
    /\ ~returnedArray.fresh
    /\ ArrayContents # publishCalls

====
